---- MODULE Spec2Model ----
(***************************************************************************)
(* Case workflow engine of gullie-agentmail: the Case Store                *)
(* (state_manager.py), the Decision Engine (decision_engine.py), the       *)
(* staleness check (send_email.py), the Orchestrator pipeline              *)
(* (orchestrator.py) and the two intake loops (server.py).                 *)
(*                                                                         *)
(* Python dicts are functions whose DOMAIN is the set of keys present;     *)
(* Python None is the string "None"; a raised exception is the name of     *)
(* its class in the field exc of an operation's result.                    *)
(***************************************************************************)
EXTENDS Integers, Sequences, FiniteSets, TLC

VARIABLES cases, processed_email_ids, last, probe

vars == <<cases, processed_email_ids, last, probe>>

(***************************************************************************)
(* Bounds                                                                  *)
(***************************************************************************)
\* current_milestone is driven no further than MaxMilestone + 1
MaxMilestone == 2
\* internalDate strings have 1..MaxTsLen digits
MaxTsLen == 2
\* a thread lookup returns at most MaxThreadLen messages
MaxThreadLen == 2

(***************************************************************************)
(* Values                                                                  *)
(***************************************************************************)
None == "None"

\* the keys a milestone data dict is seen with: the five of create_case,
\* pickup_date (extract_milestone1_data, tests) and one key outside the
\* registry (update_milestone_data takes any dict; extract_fields infers keys)
Keys == {"pickup_address", "pickup_date", "delivery_address", "needs_box",
         "needs_packing_help", "insurance_opted_in", "notes"}

Values == {None, "True", "False", "x", "y"}

MsNums == 1..MaxMilestone

\* dict.get(key) with the default None
Get(d, k) == IF k \in DOMAIN d THEN d[k] ELSE None

\* dict.update(other)
DictUpdate(d, other) ==
    [k \in (DOMAIN d) \cup (DOMAIN other) |->
        IF k \in DOMAIN other THEN other[k] ELSE d[k]]

EmptyDict == [k \in {} |-> None]

SeqToSet(s) == {s[i] : i \in 1..Len(s)}

(***************************************************************************)
(* Case Store (state_manager.py)                                           *)
(***************************************************************************)
\* the list both required_fields literals of decision_engine.py hold, and the
\* order of the five tests of is_milestone_complete
required_fields ==
    <<"pickup_address", "delivery_address", "needs_box",
      "needs_packing_help", "insurance_opted_in">>

NewMilestone == [status |-> "in_progress", data |-> EmptyDict, pending_actions |-> <<>>]

NewCase(employee_email) ==
    [employee_email |-> employee_email,
     current_milestone |-> 1,
     milestones |-> (1 :> [status |-> "in_progress",
                           data |-> [k \in SeqToSet(required_fields) |-> None],
                           pending_actions |-> <<"waiting_for_addresses">>])]

\* get_case: the case, or None when the address has none
HasCase(st, employee_email) == employee_email \in DOMAIN st

\* create_case that writes a new case over the one present
create_case_overwrite(st, employee_email) ==
    (employee_email :> NewCase(employee_email)) @@ st

create_case(st, employee_email) ==
    IF HasCase(st, employee_email)
    THEN st
    ELSE st @@ (employee_email :> NewCase(employee_email))

\* the case with milestone_<milestone> present
WithMilestone(case, milestone) ==
    IF milestone \in DOMAIN case.milestones
    THEN case
    ELSE [case EXCEPT !.milestones = @ @@ (milestone :> NewMilestone)]

\* update_milestone_data that builds the milestone entry anew on every call
update_milestone_data_rebuilt(st, employee_email, milestone, data) ==
    IF ~HasCase(st, employee_email)
    THEN [st |-> st, exc |-> "ValueError"]
    ELSE LET case == WithMilestone(st[employee_email], milestone)
             upd == [case EXCEPT !.milestones[milestone].data = DictUpdate(@, data),
                                 !.milestones[milestone].status = "in_progress"]
         IN  [st |-> [st EXCEPT ![employee_email] = upd], exc |-> "none"]

update_milestone_data(st, employee_email, milestone, data) ==
    IF ~HasCase(st, employee_email)
    THEN [st |-> st, exc |-> "ValueError"]
    ELSE LET case == WithMilestone(st[employee_email], milestone)
             upd == [case EXCEPT !.milestones[milestone].data = DictUpdate(@, data)]
         IN  [st |-> [st EXCEPT ![employee_email] = upd], exc |-> "none"]

\* advance_milestone that adds one without marking the milestone it leaves
advance_milestone_unmarked(st, employee_email) ==
    IF ~HasCase(st, employee_email)
    THEN [st |-> st, exc |-> "ValueError"]
    ELSE [st |-> [st EXCEPT ![employee_email].current_milestone = @ + 1], exc |-> "none"]

advance_milestone(st, employee_email) ==
    IF ~HasCase(st, employee_email)
    THEN [st |-> st, exc |-> "ValueError"]
    ELSE LET case == st[employee_email]
             current == case.current_milestone
             marked == IF current \in DOMAIN case.milestones
                       THEN [case EXCEPT !.milestones[current].status = "completed"]
                       ELSE case
             upd == [marked EXCEPT !.current_milestone = current + 1]
         IN  [st |-> [st EXCEPT ![employee_email] = upd], exc |-> "none"]

is_milestone_complete(st, employee_email, milestone) ==
    IF ~HasCase(st, employee_email)
    THEN FALSE
    ELSE IF milestone = 1
         THEN LET ms == st[employee_email].milestones
                  milestone_data == IF 1 \in DOMAIN ms THEN ms[1].data ELSE EmptyDict
              IN  /\ Get(milestone_data, "pickup_address") # None
                  /\ Get(milestone_data, "delivery_address") # None
                  /\ Get(milestone_data, "needs_box") # None
                  /\ Get(milestone_data, "needs_packing_help") # None
                  /\ Get(milestone_data, "insurance_opted_in") # None
         ELSE FALSE

update_pending_actions(st, employee_email, milestone, actions) ==
    IF ~HasCase(st, employee_email)
    THEN [st |-> st, exc |-> "ValueError"]
    ELSE LET case == WithMilestone(st[employee_email], milestone)
             upd == [case EXCEPT !.milestones[milestone].pending_actions = actions]
         IN  [st |-> [st EXCEPT ![employee_email] = upd], exc |-> "none"]

\* StateManager defines no update_thread_id: the attribute lookup raises
update_thread_id(st, employee_email, thread_type, thread_id) ==
    [st |-> st, exc |-> "AttributeError"]

(***************************************************************************)
(* Decision Engine (decision_engine.py)                                    *)
(***************************************************************************)
NoAction == [type |-> None, to |-> None, milestone |-> 0, missing_fields |-> <<>>]

Milestone1Data(state) ==
    IF 1 \in DOMAIN state.milestones THEN state.milestones[1].data ELSE EmptyDict

\* check_milestone1_completion that asks for pickup_date as well, while
\* determine_missing_fields keeps its list of five
check_milestone1_completion_six(state) ==
    LET data == Milestone1Data(state)
    IN  /\ \A i \in 1..Len(required_fields) : Get(data, required_fields[i]) # None
        /\ Get(data, "pickup_date") # None

check_milestone1_completion(state) ==
    LET data == Milestone1Data(state)
    IN  \A i \in 1..Len(required_fields) : Get(data, required_fields[i]) # None

RECURSIVE MissingFrom(_, _, _)
MissingFrom(data, fields, i) ==
    IF i > Len(fields)
    THEN <<>>
    ELSE IF Get(data, fields[i]) = None
         THEN <<fields[i]>> \o MissingFrom(data, fields, i + 1)
         ELSE MissingFrom(data, fields, i + 1)

determine_missing_fields(state) ==
    MissingFrom(Milestone1Data(state), required_fields, 1)

\* _get_milestone1_action that takes only an empty dict for "no data yet"
get_milestone1_action_empty(state) ==
    LET data == Milestone1Data(state)
    IN  IF DOMAIN data = {}
        THEN [type |-> "send_initial_request", to |-> state.employee_email,
              milestone |-> 1, missing_fields |-> <<>>]
        ELSE IF check_milestone1_completion(state)
        THEN [type |-> "send_completion_confirmation", to |-> state.employee_email,
              milestone |-> 1, missing_fields |-> <<>>]
        ELSE IF determine_missing_fields(state) # <<>>
        THEN [type |-> "send_followup", to |-> state.employee_email,
              milestone |-> 1, missing_fields |-> determine_missing_fields(state)]
        ELSE NoAction

get_milestone1_action(state) ==
    LET data == Milestone1Data(state)
    IN  IF \A k \in DOMAIN data : data[k] = None
        THEN [type |-> "send_initial_request", to |-> state.employee_email,
              milestone |-> 1, missing_fields |-> <<>>]
        ELSE IF check_milestone1_completion(state)
        THEN [type |-> "send_completion_confirmation", to |-> state.employee_email,
              milestone |-> 1, missing_fields |-> <<>>]
        ELSE IF determine_missing_fields(state) # <<>>
        THEN [type |-> "send_followup", to |-> state.employee_email,
              milestone |-> 1, missing_fields |-> determine_missing_fields(state)]
        ELSE NoAction

\* get_next_action that looks the case up in the store again instead of
\* deciding on the snapshot it was handed
get_next_action_live(state) ==
    LET live == IF HasCase(cases, state.employee_email)
                THEN cases[state.employee_email]
                ELSE state
    IN  IF live.current_milestone = 1
        THEN get_milestone1_action(live)
        ELSE NoAction

\* get_next_action that decides as for milestone 1 at every milestone
get_next_action_any_milestone(state) == get_milestone1_action(state)

get_next_action(state) ==
    IF state.current_milestone = 1
    THEN get_milestone1_action(state)
    ELSE NoAction

(***************************************************************************)
(* Staleness check (send_email.py)                                         *)
(***************************************************************************)
\* Gmail's internalDate is a string of decimal digits, here the sequence of
\* its digits; a message without the key is NoDate
Digits == {1, 9}

NoDate == <<>>

TsStrings == UNION {[1..n -> Digits] : n \in 1..MaxTsLen}

\* int(s) of a digit string
RECURSIVE StrToInt(_)
StrToInt(s) ==
    IF s = <<>> THEN 0 ELSE 10 * StrToInt(SubSeq(s, 1, Len(s) - 1)) + s[Len(s)]

\* a < b as Python compares two str: code point by code point, a proper
\* prefix being the smaller
RECURSIVE StrLess(_, _)
StrLess(a, b) ==
    IF b = <<>> THEN FALSE
    ELSE IF a = <<>> THEN TRUE
    ELSE IF a[1] # b[1] THEN a[1] < b[1]
    ELSE StrLess(Tail(a), Tail(b))

\* max(...) over the str values of dates[1..i]
RECURSIVE StrMax(_, _)
StrMax(dates, i) ==
    IF i = 1 THEN dates[1]
    ELSE LET m == StrMax(dates, i - 1)
         IN  IF StrLess(m, dates[i]) THEN dates[i] ELSE m

\* int(max((msg.get('internalDate', 0) for msg in thread_messages), default=0));
\* a str and the int 0 do not compare
latest_date(dates) ==
    IF \A i \in 1..Len(dates) : dates[i] = NoDate
    THEN [exc |-> "none", value |-> 0]
    ELSE IF \E i \in 1..Len(dates) : dates[i] = NoDate
    THEN [exc |-> "TypeError", value |-> 0]
    ELSE [exc |-> "none", value |-> StrToInt(StrMax(dates, Len(dates)))]

\* thread_messages: the internalDate of each message fetch_thread_messages
\* returned, <<>> when the lookup failed or the thread is empty
is_latest_in_thread(email, thread_messages) ==
    IF email.threadId = None
    THEN [exc |-> "none", value |-> TRUE]
    ELSE IF email.internalDate = NoDate
    THEN [exc |-> "none", value |-> TRUE]
    ELSE IF thread_messages = <<>>
    THEN [exc |-> "none", value |-> TRUE]
    ELSE LET latest == latest_date(thread_messages)
         IN  IF latest.exc # "none"
             THEN [exc |-> latest.exc, value |-> FALSE]
             ELSE [exc |-> "none",
                   value |-> StrToInt(email.internalDate) >= latest.value]

(***************************************************************************)
(* Orchestrator (orchestrator.py)                                          *)
(***************************************************************************)
\* what send_message does with a message: Gmail accepts it and answers with
\* the thread it filed it in, or HttpError (send_message returns None), or
\* another exception leaves send_message
Transports ==
    {[kind |-> "accepted", threadId |-> "t1"],
     [kind |-> "http_error", threadId |-> None],
     [kind |-> "raises", threadId |-> None]}

ThreadKey(thread_type) ==
    IF thread_type = "employee" THEN "employee_thread_id" ELSE "vendor_thread_id"

\* send_next_email that reports success whatever send_message answered
send_next_email_optimistic(st, employee_email, tr) ==
    [st |-> st, ret |-> TRUE, sent |-> (tr.kind = "accepted"), attempts |-> 1]

\* send_next_email that calls send_message a second time when the first
\* call failed
send_next_email_retrying(st, employee_email, tr) ==
    [st |-> st, ret |-> (tr.kind = "accepted"), sent |-> (tr.kind = "accepted"),
     attempts |-> IF tr.kind = "accepted" THEN 1 ELSE 2]

\* result: st the store, ret the bool returned, sent whether Gmail accepted
\* a message, attempts the number of calls of send_message (line 187)
send_next_email(st, employee_email, tr) ==
    LET thread_id == IF HasCase(st, employee_email)
                     THEN Get(st[employee_email], ThreadKey("employee"))
                     ELSE None
    IN  IF tr.kind = "raises"
        THEN [st |-> st, ret |-> FALSE, sent |-> FALSE, attempts |-> 1]
        ELSE IF tr.kind = "http_error"
        THEN [st |-> st, ret |-> FALSE, sent |-> FALSE, attempts |-> 1]
        ELSE IF thread_id = None \/ thread_id # tr.threadId
        THEN LET u == update_thread_id(st, employee_email, "employee", tr.threadId)
             IN  [st |-> u.st, ret |-> (u.exc = "none"), sent |-> TRUE, attempts |-> 1]
        ELSE [st |-> st, ret |-> TRUE, sent |-> TRUE, attempts |-> 1]

ActionTypes ==
    {"send_initial_request", "send_followup", "send_completion_confirmation",
     "send_clarification", "extract_data"}

\* execute_action that advances without looking at the outcome of the send
execute_action_unchecked(st, action_type, employee_email, tr) ==
    IF action_type \in {"send_initial_request", "send_followup", "send_clarification"}
    THEN send_next_email(st, employee_email, tr)
    ELSE IF action_type = "send_completion_confirmation"
    THEN LET s == send_next_email(st, employee_email, tr)
         IN  IF is_milestone_complete(s.st, employee_email, 1)
             THEN [s EXCEPT !.st = advance_milestone(s.st, employee_email).st]
             ELSE s
    ELSE [st |-> st, ret |-> FALSE, sent |-> FALSE, attempts |-> 0]

execute_action(st, action_type, employee_email, tr) ==
    IF action_type \in {"send_initial_request", "send_followup", "send_clarification"}
    THEN send_next_email(st, employee_email, tr)
    ELSE IF action_type = "send_completion_confirmation"
    THEN LET s == send_next_email(st, employee_email, tr)
         IN  IF s.ret /\ is_milestone_complete(s.st, employee_email, 1)
             THEN [s EXCEPT !.st = advance_milestone(s.st, employee_email).st]
             ELSE s
    ELSE [st |-> st, ret |-> FALSE, sent |-> FALSE, attempts |-> 0]

Intents == {"answer", "question", "greeting", "unrelated", "unknown"}

\* the updates without the filter on None
AllItems(extracted_data) == extracted_data

\* updates = {k: v for k, v in extracted_data.items() if v is not None}
NonNoneItems(extracted_data) ==
    [k \in {j \in DOMAIN extracted_data : extracted_data[j] # None} |-> extracted_data[k]]

\* lines 99-103: the merge of an extraction result into milestone 1
merge_extracted(st, employee_email, extracted_data) ==
    LET updates == NonNoneItems(extracted_data)
    IN  IF DOMAIN updates # {}
        THEN update_milestone_data(st, employee_email, 1, updates)
        ELSE [st |-> st, exc |-> "none"]

\* handle_milestone1 that decides and executes again after it has executed
\* an action
handle_milestone1_twice(st, employee_email, intent, extracted_data, tr) ==
    LET next_action == get_next_action(st[employee_email])
        e == execute_action(st, next_action.type, employee_email, tr)
        again == get_next_action(e.st[employee_email])
        f == execute_action(e.st, again.type, employee_email, tr)
    IN  [st |-> f.st, ret |-> f.ret, sent |-> (e.sent \/ f.sent),
         action |-> next_action.type, exc |-> "none",
         decisions |-> 2, attempts |-> e.attempts + f.attempts]

\* result: as send_next_email, with action the type of the action decided
\* (None when the pass decided none), exc the exception that left the
\* handler and decisions the number of calls of get_next_action (line 109)
handle_milestone1(st, employee_email, intent, extracted_data, tr) ==
    LET keyError == /\ intent = "answer"
                    /\ "employee_thread_id" \notin DOMAIN st[employee_email]
        merged == IF intent = "answer"
                  THEN merge_extracted(st, employee_email, extracted_data)
                  ELSE [st |-> st, exc |-> "none"]
        next_action == get_next_action(merged.st[employee_email])
    IN  IF keyError
        THEN [st |-> st, ret |-> FALSE, sent |-> FALSE, action |-> None, exc |-> "KeyError",
              decisions |-> 0, attempts |-> 0]
        ELSE IF merged.exc # "none"
        THEN [st |-> merged.st, ret |-> FALSE, sent |-> FALSE, action |-> None,
              exc |-> merged.exc, decisions |-> 0, attempts |-> 0]
        ELSE IF next_action # NoAction
        THEN LET e == execute_action(merged.st, next_action.type, employee_email, tr)
             IN  [st |-> e.st, ret |-> e.ret, sent |-> e.sent,
                  action |-> next_action.type, exc |-> "none",
                  decisions |-> 1, attempts |-> e.attempts]
        ELSE [st |-> merged.st, ret |-> TRUE, sent |-> FALSE, action |-> None,
              exc |-> "none", decisions |-> 1, attempts |-> 0]

\* process_incoming_email that looks at the thread only after it has found
\* or created the case
process_incoming_email_late_check(st, email, thread_messages, intent, extracted_data, tr) ==
    LET skip(s, e) == [st |-> s, ret |-> FALSE, sent |-> FALSE, action |-> None, exc |-> e,
                       decisions |-> 0, attempts |-> 0]
        latest == is_latest_in_thread(email, thread_messages)
        sender_email == email.from
        st1 == create_case(st, sender_email)
        current_thread_id == Get(st1[sender_email], "employee_thread_id")
        linked == IF email.threadId # None /\ current_thread_id # email.threadId
                  THEN update_thread_id(st1, sender_email, "employee", email.threadId)
                  ELSE [st |-> st1, exc |-> "none"]
    IN  IF sender_email = None THEN skip(st, "none")
        ELSE IF latest.exc # "none" THEN skip(st1, latest.exc)
        ELSE IF ~latest.value THEN skip(st1, "none")
        ELSE IF linked.exc # "none" THEN skip(linked.st, linked.exc)
        ELSE IF linked.st[sender_email].current_milestone = 1
        THEN handle_milestone1(linked.st, sender_email, intent, extracted_data, tr)
        ELSE skip(linked.st, "none")

\* process_incoming_email without the test of lines 43-45 on the sender
process_incoming_email_unresolved(st, email, thread_messages, intent, extracted_data, tr) ==
    LET skip(s, e) == [st |-> s, ret |-> FALSE, sent |-> FALSE, action |-> None, exc |-> e,
                       decisions |-> 0, attempts |-> 0]
        latest == is_latest_in_thread(email, thread_messages)
        sender_email == email.from
        st1 == create_case(st, sender_email)
        current_thread_id == Get(st1[sender_email], "employee_thread_id")
        linked == IF email.threadId # None /\ current_thread_id # email.threadId
                  THEN update_thread_id(st1, sender_email, "employee", email.threadId)
                  ELSE [st |-> st1, exc |-> "none"]
    IN  IF latest.exc # "none" THEN skip(st, latest.exc)
        ELSE IF ~latest.value THEN skip(st, "none")
        ELSE IF linked.exc # "none" THEN skip(linked.st, linked.exc)
        ELSE IF linked.st[sender_email].current_milestone = 1
        THEN handle_milestone1(linked.st, sender_email, intent, extracted_data, tr)
        ELSE skip(linked.st, "none")

\* email: [id, from, threadId, internalDate]; from is the address
\* extract_email_address finds in the From header, None when it finds none
process_incoming_email(st, email, thread_messages, intent, extracted_data, tr) ==
    LET skip(s, e) == [st |-> s, ret |-> FALSE, sent |-> FALSE, action |-> None, exc |-> e,
                       decisions |-> 0, attempts |-> 0]
        latest == is_latest_in_thread(email, thread_messages)
        sender_email == email.from
        st1 == create_case(st, sender_email)
        current_thread_id == Get(st1[sender_email], "employee_thread_id")
        linked == IF email.threadId # None /\ current_thread_id # email.threadId
                  THEN update_thread_id(st1, sender_email, "employee", email.threadId)
                  ELSE [st |-> st1, exc |-> "none"]
    IN  IF latest.exc # "none" THEN skip(st, latest.exc)
        ELSE IF ~latest.value THEN skip(st, "none")
        ELSE IF sender_email = None THEN skip(st, "none")
        ELSE IF linked.exc # "none" THEN skip(linked.st, linked.exc)
        ELSE IF linked.st[sender_email].current_milestone = 1
        THEN handle_milestone1(linked.st, sender_email, intent, extracted_data, tr)
        ELSE skip(linked.st, "none")

\* initiate_case: create the case when absent, send the initial request
initiate_case(st, employee_email, tr) ==
    send_next_email(create_case(st, employee_email), employee_email, tr)

(***************************************************************************)
(* Inputs                                                                  *)
(***************************************************************************)
\* the inbox: a mock message without thread (test_with_mock_email), a
\* message of thread t1 dated "9", a message whose From header holds no
\* address, a message of a second sender
Inbox ==
    {[id |-> "m1", from |-> "a@x.io", threadId |-> None, internalDate |-> NoDate],
     [id |-> "m2", from |-> "a@x.io", threadId |-> "t1", internalDate |-> <<9>>],
     [id |-> "m3", from |-> None, threadId |-> None, internalDate |-> NoDate],
     [id |-> "m4", from |-> "b@x.io", threadId |-> None, internalDate |-> NoDate]}

\* what fetch_thread_messages may return: up to MaxThreadLen messages, each
\* with an internalDate or without one; <<>> for HttpError or an empty thread
Lookups == UNION {[1..n -> TsStrings \cup {NoDate}] : n \in 0..MaxThreadLen}

\* what it returns for thread t1 of the inbox: nothing (HttpError), the
\* message dated "9" alone, that message and a later one dated "19", a later
\* message and one that carries no internalDate
InboxLookups ==
    {<<>>, <<(<<9>>)>>, <<(<<9>>), (<<1, 9>>)>>, <<(<<1, 9>>), NoDate>>}

\* the lookups is_latest_in_thread makes for an email: none without a thread
\* id or without a date
LookupsFor(email) ==
    IF email.threadId = None \/ email.internalDate = NoDate
    THEN {<<>>}
    ELSE InboxLookups

NoExtraction == [k \in {} |-> None]

\* results of extract_milestone1_data
Extractions ==
    {[k \in Keys \ {"notes"} |-> None],
     [k \in Keys \ {"notes"} |->
        IF k \in {"pickup_address", "delivery_address"} THEN "y" ELSE None]}

\* extract_milestone1_data runs only for the intent answer
ExtractionsFor(intent) == IF intent = "answer" THEN Extractions ELSE {NoExtraction}

\* the addresses the Case Store and the Orchestrator are called with directly
Addrs == {"a@x.io"}

\* calls of update_milestone_data: <<milestone, data>>
UpdateInputs ==
    {<<1, ("pickup_address" :> "x") @@ ("delivery_address" :> "x")>>,
     <<1, ("pickup_date" :> "x") @@ ("needs_box" :> "True")
            @@ ("needs_packing_help" :> "False") @@ ("insurance_opted_in" :> "True")>>,
     <<1, ("needs_box" :> None)>>}
    \cup {<<m, ("notes" :> "x")>> : m \in MsNums \ {1}}

PendingInputs == {<<>>}

(***************************************************************************)
(* State                                                                   *)
(***************************************************************************)
NoProbe == [kind |-> "none"]

Last(op, employee_email, email_id, action, sent, ret) ==
    [op |-> op, employee_email |-> employee_email, email_id |-> email_id,
     action |-> action, sent |-> sent, ret |-> ret]

EmptyStore == [a \in {} |-> NewCase(a)]

\* what _load_state finds: no file (or an unreadable one), or a file with a
\* case that carries the top-level key "employee_thread_id" the Orchestrator
\* reads (lines 57, 96, 174)
StateFiles ==
    {EmptyStore,
     ("a@x.io" :> (NewCase("a@x.io") @@ ("employee_thread_id" :> "t1")))}

Init ==
    /\ cases \in StateFiles
    /\ processed_email_ids = {}
    /\ last = Last("init", None, None, None, FALSE, FALSE)
    /\ probe = NoProbe

\* current_milestone stays within the bound
Bounded(st) == \A a \in DOMAIN st : st[a].current_milestone <= MaxMilestone + 1

(***************************************************************************)
(* Case Store calls                                                        *)
(***************************************************************************)
CreateCase(a) ==
    /\ cases' = create_case(cases, a)
    /\ last' = Last("create_case", a, None, None, FALSE, TRUE)
    /\ UNCHANGED <<processed_email_ids, probe>>

UpdateMilestoneData(a, m, d) ==
    LET r == update_milestone_data(cases, a, m, d)
    IN  /\ cases' = r.st
        /\ last' = Last("update_milestone_data", a, None, None, FALSE, r.exc = "none")
        /\ UNCHANGED <<processed_email_ids, probe>>

UpdatePendingActions(a, m, p) ==
    LET r == update_pending_actions(cases, a, m, p)
    IN  /\ cases' = r.st
        /\ last' = Last("update_pending_actions", a, None, None, FALSE, r.exc = "none")
        /\ UNCHANGED <<processed_email_ids, probe>>

AdvanceMilestone(a) ==
    LET r == advance_milestone(cases, a)
    IN  /\ Bounded(r.st)
        /\ cases' = r.st
        /\ last' = Last("advance_milestone", a, None, None, FALSE, r.exc = "none")
        /\ UNCHANGED <<processed_email_ids, probe>>

(***************************************************************************)
(* Orchestrator calls                                                      *)
(***************************************************************************)
\* the results one pass over email can have, over what the collaborators
\* (thread lookup, classification, extraction, transport) may answer
Passes(st, email) ==
    {process_incoming_email(st, email, tm, c[1], c[2], tr) :
        tm \in LookupsFor(email),
        c \in {<<i, x>> \in Intents \X (Extractions \cup {NoExtraction}) :
                  x \in ExtractionsFor(i)},
        tr \in Transports}

\* run_orchestrator.py process_latest_email: one pass over one message
ProcessIncomingEmail(email) ==
    \E r \in Passes(cases, email) :
        /\ Bounded(r.st)
        /\ cases' = r.st
        /\ last' = Last("process_incoming_email", email.from, email.id,
                        r.action, r.sent, r.ret)
        /\ UNCHANGED <<processed_email_ids, probe>>

ExecuteAction(a, action_type) ==
    \E tr \in Transports :
        LET r == execute_action(cases, action_type, a, tr)
        IN  /\ HasCase(cases, a)
            /\ Bounded(r.st)
            /\ cases' = r.st
            /\ last' = Last("execute_action", a, None, action_type, r.sent, r.ret)
            /\ UNCHANGED <<processed_email_ids, probe>>

InitiateCase(a) ==
    \E tr \in Transports :
        LET r == initiate_case(cases, a, tr)
        IN  /\ cases' = r.st
            /\ last' = Last("initiate_case", a, None, "send_initial_request",
                            r.sent, r.ret)
            /\ UNCHANGED <<processed_email_ids, probe>>

Next ==
    \/ \E a \in Addrs : CreateCase(a)
    \/ \E a \in Addrs, u \in UpdateInputs : UpdateMilestoneData(a, u[1], u[2])
    \/ \E a \in Addrs, m \in MsNums, p \in PendingInputs : UpdatePendingActions(a, m, p)
    \/ \E a \in Addrs : AdvanceMilestone(a)
    \/ \E email \in Inbox : ProcessIncomingEmail(email)
    \/ \E a \in Addrs, t \in ActionTypes : ExecuteAction(a, t)
    \/ \E a \in Addrs : InitiateCase(a)

Spec == Init /\ [][Next]_vars

(***************************************************************************)
(* Intake (server.py)                                                      *)
(***************************************************************************)
\* probe of the intake specification: the ids a pass has handled so far (it
\* returned True or Gmail accepted its message), and whether the last step
\* handed over an id that had been handled before
IntakeProbe(handled, replay) ==
    [kind |-> "intake", handled |-> handled, replay |-> replay]

Deliver(email, r) ==
    IntakeProbe(IF r.ret \/ r.sent THEN probe.handled \cup {email.id} ELSE probe.handled,
                email.id \in probe.handled)

\* poll_emails_task, the body of the loop over the fetched messages
PollEmail(email) ==
    \/ /\ email.id \in processed_email_ids
       /\ last' = Last("poll_skipped", email.from, email.id, None, FALSE, FALSE)
       /\ probe' = IntakeProbe(probe.handled, FALSE)
       /\ UNCHANGED <<cases, processed_email_ids>>
    \/ /\ email.id \notin processed_email_ids
       /\ processed_email_ids' = processed_email_ids \cup {email.id}
       /\ last' = Last("poll_filtered", email.from, email.id, None, FALSE, FALSE)
       /\ probe' = IntakeProbe(probe.handled, FALSE)
       /\ UNCHANGED cases
    \/ /\ email.id \notin processed_email_ids
       /\ \E r \in Passes(cases, email) :
            /\ cases' = r.st
            /\ processed_email_ids' =
                  IF r.ret THEN processed_email_ids \cup {email.id}
                  ELSE processed_email_ids
            /\ last' = Last("poll_processed", email.from, email.id,
                            r.action, r.sent, r.ret)
            /\ probe' = Deliver(email, r)

\* process_email_endpoint, the body of the loop over emails_to_process
ProcessEndpoint(email) ==
    \/ /\ last' = Last("endpoint_filtered", email.from, email.id, None, FALSE, FALSE)
       /\ probe' = IntakeProbe(probe.handled, FALSE)
       /\ UNCHANGED <<cases, processed_email_ids>>
    \/ \E r \in Passes(cases, email) :
            /\ cases' = r.st
            /\ last' = Last("endpoint_processed", email.from, email.id,
                            r.action, r.sent, r.ret)
            /\ probe' = Deliver(email, r)
            /\ UNCHANGED processed_email_ids

\* initiate_case_endpoint
InitiateEndpoint(a) ==
    \E tr \in Transports :
        LET r == initiate_case(cases, a, tr)
        IN  /\ cases' = r.st
            /\ last' = Last("initiate_case", a, None, "send_initial_request",
                            r.sent, r.ret)
            /\ probe' = IntakeProbe(probe.handled, FALSE)
            /\ UNCHANGED processed_email_ids

\* the state files the server starts over: those of StateFiles, and one whose
\* case has everything but the two addresses
IntakeFiles ==
    StateFiles \cup
    {("a@x.io" :>
        ([NewCase("a@x.io") EXCEPT !.milestones[1].data =
             DictUpdate(@, ("needs_box" :> "True") @@ ("needs_packing_help" :> "False")
                              @@ ("insurance_opted_in" :> "True"))]
         @@ ("employee_thread_id" :> "t1")))}

InitIntake ==
    /\ cases \in IntakeFiles
    /\ processed_email_ids = {}
    /\ last = Last("init", None, None, None, FALSE, FALSE)
    /\ probe = IntakeProbe({}, FALSE)

NextIntake ==
    \/ \E email \in Inbox : PollEmail(email)
    \/ \E email \in Inbox : ProcessEndpoint(email)
    \/ \E a \in Addrs : InitiateEndpoint(a)

SpecIntake == InitIntake /\ [][NextIntake]_vars

(***************************************************************************)
(* The Decision Engine on every case dict                                  *)
(***************************************************************************)
\* milestone-1 data dicts: each of the five keys of create_case, pickup_date
\* and notes present or not
DecideValues == {None, "False", "x"}

DecideData ==
    UNION {[present -> DecideValues] :
              present \in SUBSET (SeqToSet(required_fields) \cup {"pickup_date", "notes"})}

DecideCase(current_milestone, data) ==
    [NewCase("a@x.io") EXCEPT !.current_milestone = current_milestone,
                              !.milestones[1].data = data,
                              !.milestones[1].status =
                                  IF current_milestone > 1 THEN "completed" ELSE @]

InitDecide ==
    /\ \E cm \in 1..2, d \in DecideData :
          cases = ("a@x.io" :> DecideCase(cm, d))
    /\ processed_email_ids = {}
    /\ last = Last("init", None, None, None, FALSE, FALSE)
    /\ probe = [kind |-> "decide", done |-> FALSE, action |-> NoAction,
                complete |-> FALSE, sm_complete |-> FALSE, missing |-> <<>>]

Decide ==
    /\ probe.kind = "decide" /\ ~probe.done
    /\ probe' = [kind |-> "decide", done |-> TRUE,
                 action |-> get_next_action(cases["a@x.io"]),
                 complete |-> check_milestone1_completion(cases["a@x.io"]),
                 sm_complete |-> is_milestone_complete(cases, "a@x.io", 1),
                 missing |-> determine_missing_fields(cases["a@x.io"])]
    /\ UNCHANGED <<cases, processed_email_ids, last>>

SpecDecide == InitDecide /\ [][Decide]_vars

(***************************************************************************)
(* The staleness check on every event and thread                           *)
(***************************************************************************)
InitThread ==
    /\ cases = EmptyStore
    /\ processed_email_ids = {}
    /\ last = Last("init", None, None, None, FALSE, FALSE)
    /\ \E t \in {None, "t1"}, d \in TsStrings \cup {NoDate}, tm \in Lookups :
          probe = [kind |-> "thread", done |-> FALSE,
                   email |-> [id |-> "m", from |-> "a@x.io", threadId |-> t,
                              internalDate |-> d],
                   thread_messages |-> tm,
                   out |-> [exc |-> "none", value |-> FALSE]]

CheckLatest ==
    /\ probe.kind = "thread" /\ ~probe.done
    /\ probe' = [probe EXCEPT !.done = TRUE,
                              !.out = is_latest_in_thread(probe.email,
                                                          probe.thread_messages)]
    /\ UNCHANGED <<cases, processed_email_ids, last>>

SpecThread == InitThread /\ [][CheckLatest]_vars

(***************************************************************************)
(* handle_milestone1 on every case data and extraction result              *)
(***************************************************************************)
MergeKeys == Keys \ {"notes"}

\* the case dict handed to handle_milestone1: milestone 1 in progress, any
\* data, with or without the top-level key "employee_thread_id" that line 96
\* reads (create_case writes no such key; a state file may carry it)
MergeCase(data, linked) ==
    LET case == [NewCase("a@x.io") EXCEPT !.milestones[1].data = data]
    IN  IF linked THEN case @@ ("employee_thread_id" :> "t1") ELSE case

InitMerge ==
    /\ \E d \in [MergeKeys -> {None, "x"}], linked \in BOOLEAN :
          /\ cases = ("a@x.io" :> MergeCase(d, linked))
          /\ probe = [kind |-> "merge", done |-> FALSE, before |-> d,
                      extracted |-> NoExtraction, exc |-> "none"]
    /\ processed_email_ids = {}
    /\ last = Last("init", None, None, None, FALSE, FALSE)

HandleAnswer ==
    /\ probe.kind = "merge" /\ ~probe.done
    /\ \E x \in [MergeKeys -> {None, "y"}], tr \in Transports :
          LET r == handle_milestone1(cases, "a@x.io", "answer", x, tr)
          IN  /\ cases' = r.st
              /\ probe' = [probe EXCEPT !.done = TRUE, !.extracted = x, !.exc = r.exc]
              /\ last' = Last("handle_milestone1", "a@x.io", None, r.action,
                              r.sent, r.ret)
    /\ UNCHANGED processed_email_ids

SpecMerge == InitMerge /\ [][HandleAnswer]_vars

(***************************************************************************)
(* get_next_action twice on one case snapshot while the store moves on     *)
(***************************************************************************)
\* milestone-1 data of the snapshot: nothing set, the addresses set, a flag
\* set, everything set
SnapshotData ==
    {[k \in SeqToSet(required_fields) |-> IF k \in set THEN "x" ELSE None] :
        set \in {{}, {"pickup_address", "delivery_address"}, {"needs_box"},
                 SeqToSet(required_fields)}}

\* the snapshot is the case dict get_case returned; calls counts the calls of
\* get_next_action made on it, store1 and store2 are the case in the store at
\* the first and at the second call
InitSnapshot ==
    /\ \E cm \in 1..2, d \in SnapshotData :
          /\ cases = ("a@x.io" :> DecideCase(cm, d))
          /\ probe = [kind |-> "snapshot", snapshot |-> DecideCase(cm, d),
                      calls |-> 0, first |-> NoAction, second |-> NoAction,
                      store1 |-> DecideCase(cm, d), store2 |-> DecideCase(cm, d)]
    /\ processed_email_ids = {}
    /\ last = Last("init", None, None, None, FALSE, FALSE)

DecideSnapshot ==
    /\ probe.kind = "snapshot" /\ probe.calls < 2
    /\ probe' = IF probe.calls = 0
                THEN [probe EXCEPT !.calls = 1,
                                   !.first = get_next_action(probe.snapshot),
                                   !.store1 = cases["a@x.io"]]
                ELSE [probe EXCEPT !.calls = 2,
                                   !.second = get_next_action(probe.snapshot),
                                   !.store2 = cases["a@x.io"]]
    /\ last' = Last("get_next_action", "a@x.io", None, None, FALSE, TRUE)
    /\ UNCHANGED <<cases, processed_email_ids>>

NextSnapshot ==
    \/ DecideSnapshot
    \/ \E u \in UpdateInputs : UpdateMilestoneData("a@x.io", u[1], u[2])
    \/ AdvanceMilestone("a@x.io")

SpecSnapshot == InitSnapshot /\ [][NextSnapshot]_vars

(***************************************************************************)
(* The poll loop when collaborators fail (server.py, orchestrator.py)      *)
(***************************************************************************)
\* what happens to a pass besides the answers of Gmail and of the
\* classifier: nothing, every _save_state raises IOError (state_manager.py
\* 35-37), extract_milestone1_data raises
Envs == {"ok", "io_error", "extraction_error"}

\* lines 33-78 of process_incoming_email under env; exc is the exception
\* that reaches line 80. A Case Store call changes the case in memory before
\* its _save_state raises
process_incoming_email_env(st, email, thread_messages, intent, extracted_data, tr, env) ==
    LET r == process_incoming_email(st, email, thread_messages, intent, extracted_data, tr)
        fail(s, sent, action, e) ==
            [st |-> s, ret |-> FALSE, sent |-> sent, action |-> action, exc |-> e]
        latest == is_latest_in_thread(email, thread_messages)
        admitted == latest.exc = "none" /\ latest.value /\ email.from # None
        \* handle_milestone1 ran to its decision
        decided == r.exc = "none" /\ (r.action # None \/ r.ret)
        updates == NonNoneItems(extracted_data)
    IN  IF env = "ok" \/ ~admitted
        THEN r
        ELSE IF env = "io_error" /\ ~HasCase(st, email.from)
        THEN fail(create_case(st, email.from), FALSE, None, "IOError")
        ELSE IF ~(decided /\ intent = "answer")
        THEN IF env = "io_error" /\ r.st # st
             THEN fail(r.st, r.sent, r.action, "none")
             ELSE r
        ELSE IF env = "extraction_error"
        THEN fail(st, FALSE, None, "Exception")
        ELSE IF DOMAIN updates # {}
        THEN fail(merge_extracted(st, email.from, extracted_data).st, FALSE, None, "IOError")
        ELSE IF r.st # st
        THEN fail(r.st, r.sent, r.action, "none")
        ELSE r

\* the except clause of lines 80-84 answering True: a pass that raised
\* counts as done
orchestrator_boundary_true(b) ==
    [st |-> b.st, ret |-> (b.exc # "none" \/ b.ret), sent |-> b.sent,
     action |-> b.action, exc |-> b.exc, raised |-> "none"]

\* the except clause of lines 80-84 without effect: the exception leaves
\* process_incoming_email
orchestrator_boundary_open(b) ==
    [st |-> b.st, ret |-> b.ret, sent |-> b.sent, action |-> b.action,
     exc |-> b.exc, raised |-> b.exc]

\* lines 32 and 80-84: whatever exception the body raised is caught and the
\* pass returns False; raised is the exception that leaves the method
orchestrator_boundary(b) ==
    [st |-> b.st, ret |-> (b.exc = "none" /\ b.ret), sent |-> b.sent,
     action |-> b.action, exc |-> b.exc, raised |-> "none"]

\* the collaborators that failed in a pass with result r
Failures(email, thread_messages, intent, env, r) ==
    {f \in {"transport", "classification", "extraction", "store write", "thread lookup"} :
        \/ f = "transport" /\ r.action # None /\ ~r.sent
        \/ f = "classification" /\ intent = "unknown"
        \/ f = "extraction" /\ env = "extraction_error" /\ r.exc = "Exception"
        \/ f = "store write" /\ env = "io_error" /\ r.st # cases
        \/ f = "thread lookup" /\ email.threadId # None /\ email.internalDate # NoDate
              /\ (thread_messages = <<>> \/ r.exc = "TypeError")}

\* the messages of the employee in the inbox
PollInbox == {email \in Inbox : email.from = "a@x.io"}

\* probe of this specification: the intent and the failures of the last
\* pass, the exception caught at the boundary, the exception that left
\* process_incoming_email, and whether an earlier pass of the run ended in
\* an exception
PollProbe(intent, failures, exc, raised, survived) ==
    [kind |-> "poll", intent |-> intent, failures |-> failures, exc |-> exc,
     raised |-> raised, survived |-> survived]

Survived == probe.survived \/ probe.exc # "none"

\* poll_emails_task, the body of the loop over the fetched messages, with
\* the except clause of lines 106-109 around it
PollEvent(email) ==
    \/ /\ email.id \in processed_email_ids
       /\ last' = Last("poll_skipped", email.from, email.id, None, FALSE, FALSE)
       /\ probe' = PollProbe(None, {}, "none", "none", Survived)
       /\ UNCHANGED <<cases, processed_email_ids>>
    \/ /\ email.id \notin processed_email_ids
       /\ processed_email_ids' = processed_email_ids \cup {email.id}
       /\ last' = Last("poll_filtered", email.from, email.id, None, FALSE, FALSE)
       /\ probe' = PollProbe(None, {}, "none", "none", Survived)
       /\ UNCHANGED cases
    \/ /\ email.id \notin processed_email_ids
       /\ last' = Last("poll_error", email.from, email.id, None, FALSE, FALSE)
       /\ probe' = PollProbe(None, {"filter"}, "Exception", "none", Survived)
       /\ UNCHANGED <<cases, processed_email_ids>>
    \/ /\ email.id \notin processed_email_ids
       /\ \E tm \in LookupsFor(email), intent \in Intents, tr \in Transports,
             env \in Envs :
            \E x \in ExtractionsFor(intent) :
               LET r == orchestrator_boundary(
                           process_incoming_email_env(cases, email, tm, intent,
                                                      x, tr, env))
               IN  /\ cases' = r.st
                   /\ processed_email_ids' =
                         IF r.raised = "none" /\ r.ret
                         THEN processed_email_ids \cup {email.id}
                         ELSE processed_email_ids
                   /\ last' = Last("poll_processed", email.from, email.id,
                                   r.action, r.sent, r.ret)
                   /\ probe' = PollProbe(intent, Failures(email, tm, intent, env, r),
                                         r.exc, r.raised, Survived)

InitPoll ==
    /\ cases \in IntakeFiles
    /\ processed_email_ids = {}
    /\ last = Last("init", None, None, None, FALSE, FALSE)
    /\ probe = PollProbe(None, {}, "none", "none", FALSE)

NextPoll == \E email \in PollInbox : PollEvent(email)

SpecPoll == InitPoll /\ [][NextPoll]_vars

(***************************************************************************)
(* The state file (state_manager.py _load_state, _save_state)              *)
(***************************************************************************)
\* json.dump of a value of a data dict: null, true / false, or a string
JsonValue(v) ==
    IF v = None THEN [t |-> "null", s |-> ""]
    ELSE IF v = "True" THEN [t |-> "bool", s |-> "true"]
    ELSE IF v = "False" THEN [t |-> "bool", s |-> "false"]
    ELSE [t |-> "string", s |-> v]

\* json.load of it
PyValue(j) ==
    IF j.t = "null" THEN None
    ELSE IF j.t = "bool" THEN (IF j.s = "true" THEN "True" ELSE "False")
    ELSE j.s

\* json.dump(self._state, f): the cases with the values of every data dict
\* written as JSON values
json_dump(st) ==
    [a \in DOMAIN st |->
        [k \in DOMAIN st[a] |->
            IF k = "milestones"
            THEN [m \in DOMAIN st[a].milestones |->
                    [st[a].milestones[m] EXCEPT
                        !.data = [f \in DOMAIN @ |-> JsonValue(@[f])]]]
            ELSE st[a][k]]]

json_load(text) ==
    [a \in DOMAIN text |->
        [k \in DOMAIN text[a] |->
            IF k = "milestones"
            THEN [m \in DOMAIN text[a].milestones |->
                    [text[a].milestones[m] EXCEPT
                        !.data = [f \in DOMAIN @ |-> PyValue(@[f])]]]
            ELSE text[a][k]]]

\* what the state file can be: absent; the JSON text _save_state wrote; a
\* text cut short by an interrupted write; bytes that are no UTF-8; valid
\* JSON that is no object (null, a list); a file open() cannot read
NoFile == [kind |-> "absent", text |-> json_dump(EmptyStore)]
JsonFile(st) == [kind |-> "json", text |-> json_dump(st)]
BadFile(kind) == [kind |-> kind, text |-> json_dump(EmptyStore)]
CorruptKinds == {"truncated", "bad_utf8", "not_an_object", "unreadable"}

\* _load_state: the exception that leaves it, whether self._state is a dict,
\* and its cases. Lines 25-26 catch json.JSONDecodeError and IOError only
_load_state(file) ==
    LET loaded(exc, is_dict, st) == [exc |-> exc, is_dict |-> is_dict, st |-> st]
    IN  IF file.kind = "absent" THEN loaded("none", TRUE, EmptyStore)
        ELSE IF file.kind = "json" THEN loaded("none", TRUE, json_load(file.text))
        ELSE IF file.kind = "truncated" THEN loaded("none", TRUE, EmptyStore)
        ELSE IF file.kind = "unreadable" THEN loaded("none", TRUE, EmptyStore)
        ELSE IF file.kind = "bad_utf8" THEN loaded("UnicodeDecodeError", FALSE, EmptyStore)
        ELSE loaded("none", FALSE, EmptyStore)

\* what the disk does to a write: it succeeds, open() raises IOError and the
\* file stays as it was, or the write raises IOError after open() truncated
\* the file
Disks == {"ok", "open_fails", "write_fails"}

_save_state(file, st, disk) ==
    IF disk = "ok" THEN [file |-> JsonFile(st), exc |-> "none"]
    ELSE IF disk = "open_fails" THEN [file |-> file, exc |-> "IOError"]
    ELSE [file |-> BadFile("truncated"), exc |-> "IOError"]

\* probe of this specification: the file; the kind of file the first
\* StateManager was constructed over, whether it was constructed ("no",
\* "yes", "failed") and whether its _state is no dict;
\* the cases of a second StateManager over the same file and whether it was
\* constructed; the milestone-1 fields whose update returned, with the value
\* written last; whether a write has failed
FileProbe(file, opened, constructed, broken, loaded2, mem2, committed, io_failed) ==
    [kind |-> "file", file |-> file, opened |-> opened, constructed |-> constructed,
     broken |-> broken, loaded2 |-> loaded2, mem2 |-> mem2,
     committed |-> committed, io_failed |-> io_failed]

FileUpdates == {u \in UpdateInputs : u[1] = 1}

\* StateManager(state_file)
Construct ==
    /\ probe.kind = "file" /\ probe.constructed = "no"
    /\ LET l == _load_state(probe.file)
       IN  /\ cases' = l.st
           /\ probe' = [probe EXCEPT
                           !.opened = probe.file.kind,
                           !.constructed = IF l.exc = "none" THEN "yes" ELSE "failed",
                           !.broken = ~l.is_dict]
           /\ last' = Last("construct", None, None, l.exc, FALSE, l.exc = "none")
    /\ UNCHANGED processed_email_ids

\* a mutating call of the first StateManager that leaves the cases st in
\* memory, raised exc before writing, or else calls _save_state when saves
StoreCall(op, a, st, exc, saves, data) ==
    /\ probe.kind = "file" /\ probe.constructed = "yes"
    /\ \E disk \in Disks :
          LET w == _save_state(probe.file, st, disk)
              written == ~probe.broken /\ exc = "none" /\ saves
          IN  /\ cases' = IF probe.broken THEN cases ELSE st
              /\ probe' = [probe EXCEPT
                              !.file = IF written THEN w.file ELSE @,
                              !.committed = IF written /\ w.exc = "none"
                                            THEN DictUpdate(@, data) ELSE @,
                              !.io_failed = @ \/ (written /\ w.exc # "none")]
              /\ last' = Last(op, a, None,
                              IF probe.broken THEN "AttributeError"
                              ELSE IF exc # "none" THEN exc
                              ELSE IF written THEN w.exc ELSE "none",
                              FALSE,
                              ~probe.broken /\ exc = "none" /\ (written => w.exc = "none"))
    /\ UNCHANGED processed_email_ids

FileCreateCase(a) ==
    StoreCall("create_case", a, create_case(cases, a), "none", ~HasCase(cases, a),
              EmptyDict)

FileUpdateMilestoneData(a, d) ==
    LET r == update_milestone_data(cases, a, 1, d)
    IN  StoreCall("update_milestone_data", a, r.st, r.exc, TRUE, d)

FileAdvanceMilestone(a) ==
    LET r == advance_milestone(cases, a)
    IN  /\ Bounded(r.st)
        /\ StoreCall("advance_milestone", a, r.st, r.exc, TRUE, EmptyDict)

\* a new StateManager over the file the first one writes
LoadState ==
    /\ probe.kind = "file" /\ probe.constructed = "yes" /\ ~probe.broken
    /\ ~probe.loaded2
    /\ LET l == _load_state(probe.file)
       IN  /\ probe' = [probe EXCEPT !.loaded2 = (l.exc = "none" /\ l.is_dict),
                                     !.mem2 = l.st]
           /\ last' = Last("load_state", None, None, l.exc, FALSE,
                           l.exc = "none" /\ l.is_dict)
    /\ UNCHANGED <<cases, processed_email_ids>>

\* update_milestone_data of the second StateManager; its write succeeds
SecondUpdateMilestoneData(a, d) ==
    /\ probe.kind = "file" /\ probe.loaded2
    /\ LET r == update_milestone_data(probe.mem2, a, 1, d)
           w == _save_state(probe.file, r.st, "ok")
       IN  /\ r.exc = "none"
           /\ probe' = [probe EXCEPT !.mem2 = r.st, !.file = w.file,
                                     !.committed = DictUpdate(@, d)]
           /\ last' = Last("second_update_milestone_data", a, None, None, FALSE, TRUE)
    /\ UNCHANGED <<cases, processed_email_ids>>

\* a pass of the Orchestrator of the second process (orchestrator.py 30-84)
\* over the latest message of thread t1, classified as answer, from which
\* both addresses are extracted: the pass works on the cases the second
\* StateManager holds, and create_case, update_milestone_data and
\* advance_milestone each write all of them to the file
SecondProcessIncomingEmail ==
    /\ probe.kind = "file" /\ probe.loaded2
    /\ \E tr \in Transports :
          LET email == CHOOSE e \in Inbox : e.id = "m2"
              a == email.from
              x == [k \in MergeKeys |->
                      IF k \in {"pickup_address", "delivery_address"} THEN "y" ELSE None]
              r == process_incoming_email(probe.mem2, email, <<email.internalDate>>,
                                          "answer", x, tr)
              merges == /\ HasCase(probe.mem2, a)
                        /\ "employee_thread_id" \in DOMAIN probe.mem2[a]
                        /\ probe.mem2[a].current_milestone = 1
              saves == merges \/ r.st # probe.mem2
          IN  /\ Bounded(r.st)
              /\ probe' = [probe EXCEPT
                              !.mem2 = r.st,
                              !.file = IF saves THEN _save_state(@, r.st, "ok").file ELSE @,
                              !.committed = IF merges THEN DictUpdate(@, NonNoneItems(x))
                                            ELSE @]
              /\ last' = Last("second_process_incoming_email", a, email.id,
                              r.action, r.sent, r.ret)
    /\ UNCHANGED <<cases, processed_email_ids>>

InitFile ==
    /\ cases = EmptyStore
    /\ processed_email_ids = {}
    /\ last = Last("init", None, None, None, FALSE, FALSE)
    /\ \E file \in {NoFile} \cup {BadFile(k) : k \in CorruptKinds}
                   \cup {JsonFile(st) : st \in StateFiles} :
          probe = FileProbe(file, "none", "no", FALSE, FALSE, EmptyStore, EmptyDict, FALSE)

NextFile ==
    \/ Construct
    \/ \E a \in Addrs : FileCreateCase(a)
    \/ \E a \in Addrs, u \in FileUpdates : FileUpdateMilestoneData(a, u[2])
    \/ \E a \in Addrs : FileAdvanceMilestone(a)
    \/ LoadState
    \/ \E a \in Addrs, u \in FileUpdates : SecondUpdateMilestoneData(a, u[2])
    \/ SecondProcessIncomingEmail

SpecFile == InitFile /\ [][NextFile]_vars

(***************************************************************************)
(* Passes over the messages of one thread (orchestrator.py 30-78)          *)
(***************************************************************************)
\* two messages of the employee in thread t1, the second one later, with
\* dates of equal length as Gmail's millisecond timestamps have, and a
\* message of the employee in another thread
EarlyMessage == [id |-> "e1", from |-> "a@x.io", threadId |-> "t1", internalDate |-> <<1>>]

LateMessage == [id |-> "e2", from |-> "a@x.io", threadId |-> "t1", internalDate |-> <<9>>]

OtherThreadMessage ==
    [id |-> "e3", from |-> "a@x.io", threadId |-> "t2", internalDate |-> <<9>>]

ThreadInbox == {EarlyMessage, LateMessage, OtherThreadMessage}

\* what extract_milestone1_data finds in a message: nothing, the pickup
\* address or both addresses the message gives ("x" in the early one, "y" in
\* the others)
ThreadExtractions(email) ==
    {[k \in Keys \ {"notes"} |->
        IF k \in found THEN (IF email.id = "e1" THEN "x" ELSE "y") ELSE None] :
     found \in {{}, {"pickup_address"}, {"pickup_address", "delivery_address"}}}

\* what fetch_thread_messages returns for the thread of email when the
\* thread holds the messages dated thread: these, or [] after HttpError
ThreadLookups(email, thread) ==
    IF email.threadId = "t1" THEN {thread, <<>>} ELSE {<<email.internalDate>>, <<>>}

\* probe of this specification: the dates of the messages thread t1 holds;
\* of the last pass, the answer of is_latest_in_thread ("admitted", "stale",
\* "error"; "none" before the first pass), the event and the exception caught
\* at line 80; the date of the latest message whose extraction was merged (0
\* when none was); who delivered the event of the last pass ("poll" or
\* "endpoint"), and the ids of the events a pass of the poll loop rejected as
\* stale
ThreadProbe(thread, admitted, email, exc, merged_from, via, stale) ==
    [kind |-> "thread_passes", thread |-> thread, admitted |-> admitted,
     email |-> email, exc |-> exc, merged_from |-> merged_from,
     via |-> via, stale |-> stale]

\* the late message arrives in the thread
Arrive ==
    /\ probe.kind = "thread_passes"
    /\ Len(probe.thread) = 1
    /\ probe' = [probe EXCEPT !.thread = Append(@, LateMessage.internalDate),
                              !.admitted = "none"]
    /\ last' = Last("arrive", LateMessage.from, LateMessage.id, None, FALSE, FALSE)
    /\ UNCHANGED <<cases, processed_email_ids>>

\* one pass over a message the inbox holds, for the first time or again:
\* delivered by the poll loop, which skips the ids of its processed set and
\* adds the id when the pass returned True (server.py 98-102), or by the
\* process endpoint, which does neither (server.py 197-269)
ThreadPass(email, via) ==
    /\ probe.kind = "thread_passes"
    /\ email = LateMessage => Len(probe.thread) = 2
    /\ via = "poll" => email.id \notin processed_email_ids
    /\ \E tm \in ThreadLookups(email, probe.thread), intent \in Intents,
          tr \in Transports :
         \E x \in IF intent = "answer" THEN ThreadExtractions(email) ELSE {NoExtraction} :
            LET r == process_incoming_email(cases, email, tm, intent, x, tr)
                latest == is_latest_in_thread(email, tm)
                merged == /\ HasCase(cases, email.from)
                          /\ Milestone1Data(r.st[email.from])
                                # Milestone1Data(cases[email.from])
            IN  /\ Bounded(r.st)
                /\ cases' = r.st
                /\ last' = Last("process_incoming_email", email.from, email.id,
                                r.action, r.sent, r.ret)
                /\ probe' = ThreadProbe(probe.thread,
                                IF latest.exc # "none" THEN "error"
                                ELSE IF latest.value THEN "admitted" ELSE "stale",
                                email, r.exc,
                                IF merged /\ StrToInt(email.internalDate) > probe.merged_from
                                THEN StrToInt(email.internalDate)
                                ELSE probe.merged_from,
                                via,
                                IF via = "poll" /\ latest.exc = "none" /\ ~latest.value
                                THEN probe.stale \cup {email.id}
                                ELSE probe.stale)
                /\ processed_email_ids' =
                      IF via = "poll" /\ r.ret
                      THEN processed_email_ids \cup {email.id}
                      ELSE processed_email_ids

InitThreadPasses ==
    /\ cases \in IntakeFiles
    /\ processed_email_ids = {}
    /\ last = Last("init", None, None, None, FALSE, FALSE)
    /\ probe = ThreadProbe(<<EarlyMessage.internalDate>>, "none", EarlyMessage, "none", 0,
                           "poll", {})

NextThreadPasses ==
    \/ Arrive
    \/ \E email \in ThreadInbox, via \in {"poll", "endpoint"} : ThreadPass(email, via)

SpecThreadPasses == InitThreadPasses /\ [][NextThreadPasses]_vars

(***************************************************************************)
(* The thread lookup of the staleness check (send_email.py 261-301)        *)
(***************************************************************************)
\* what threads().get(...).execute() does: it answers with the thread and
\* its messages, raises HttpError for an error status, or raises another
\* exception when the transport itself fails (httplib2 error, timeout)
ThreadResponses ==
    {[kind |-> "thread", messages |-> tm] : tm \in Lookups}
    \cup {[kind |-> k, messages |-> <<>>] : k \in {"http_error", "transport_error"}}

\* fetch_thread_messages: only HttpError is caught (lines 272-274)
fetch_thread_messages(response) ==
    IF response.kind = "thread" THEN [exc |-> "none", value |-> response.messages]
    ELSE IF response.kind = "http_error" THEN [exc |-> "none", value |-> <<>>]
    ELSE [exc |-> "TransportError", value |-> <<>>]

\* is_latest_in_thread(service, email) with the answer of the service to
\* the lookup of line 291, which is made only for an event with a thread id
\* and a date
check_latest(email, response) ==
    LET fetched == fetch_thread_messages(response)
    IN  IF email.threadId = None \/ email.internalDate = NoDate
        THEN is_latest_in_thread(email, <<>>)
        ELSE IF fetched.exc # "none"
        THEN [exc |-> fetched.exc, value |-> FALSE]
        ELSE is_latest_in_thread(email, fetched.value)

InitLookup ==
    /\ cases = EmptyStore
    /\ processed_email_ids = {}
    /\ last = Last("init", None, None, None, FALSE, FALSE)
    /\ \E t \in {None, "t1"}, d \in TsStrings \cup {NoDate}, response \in ThreadResponses :
          probe = [kind |-> "lookup", done |-> FALSE,
                   email |-> [id |-> "m", from |-> "a@x.io", threadId |-> t,
                              internalDate |-> d],
                   response |-> response,
                   out |-> [exc |-> "none", value |-> FALSE]]

\* line 34 of process_incoming_email: an exception of the check is caught at
\* line 80 and the event is not admitted
CheckLookup ==
    /\ probe.kind = "lookup" /\ ~probe.done
    /\ probe' = [probe EXCEPT !.done = TRUE,
                              !.out = check_latest(probe.email, probe.response)]
    /\ UNCHANGED <<cases, processed_email_ids, last>>

SpecLookup == InitLookup /\ [][CheckLookup]_vars

(***************************************************************************)
(* execute_action on every case data, action and answer of Gmail           *)
(***************************************************************************)
InitExecute ==
    /\ \E d \in [MergeKeys -> {None, "x"}], linked \in BOOLEAN :
          /\ cases = ("a@x.io" :> MergeCase(d, linked))
          /\ probe = [kind |-> "execute", done |-> FALSE,
                      before |-> MergeCase(d, linked), transport |-> "none",
                      attempts |-> 0]
    /\ processed_email_ids = {}
    /\ last = Last("init", None, None, None, FALSE, FALSE)

Execute ==
    /\ probe.kind = "execute" /\ ~probe.done
    /\ \E action_type \in ActionTypes, tr \in Transports :
          LET r == execute_action(cases, action_type, "a@x.io", tr)
          IN  /\ cases' = r.st
              /\ probe' = [probe EXCEPT !.done = TRUE, !.transport = tr.kind,
                                        !.attempts = r.attempts]
              /\ last' = Last("execute_action", "a@x.io", None, action_type,
                              r.sent, r.ret)
    /\ UNCHANGED processed_email_ids

SpecExecute == InitExecute /\ [][Execute]_vars

(***************************************************************************)
(* The poll loop of run_orchestrator.py under a stop signal                *)
(***************************************************************************)
\* the message fetch_latest_email returns: the message of thread t1
StopMessage == CHOOSE email \in Inbox : email.id = "m2"

\* probe of this specification: where the pass over the message stands
\* ("idle" between passes, "begun" after line 78 of orchestrator.py has
\* called handle_milestone1, "merged" after the merge of lines 93-106, "sent"
\* after the send of line 137), the answers of the collaborators to the pass,
\* the state file, and whether KeyboardInterrupt has ended the loop
StopProbe(pc, intent, extracted, tr, file, stopped) ==
    [kind |-> "stop", pc |-> pc, intent |-> intent, extracted |-> extracted,
     tr |-> tr, file |-> file, stopped |-> stopped]

\* where KeyboardInterrupt reaches a Case Store call that writes: not at
\* all, or inside json.dump after open() has truncated the file
Signals == {"none", "in_write"}

\* a Case Store call of the pass that leaves the cases st and moves the pass
\* to pc, under signal
StopWrite(st, pc, signal) ==
    /\ cases' = st
    /\ probe' = IF signal = "none"
                THEN [probe EXCEPT !.pc = pc, !.file = JsonFile(st)]
                ELSE [probe EXCEPT !.file = BadFile("truncated"), !.stopped = TRUE]

\* lines 27-38 of poll_inbox and 32-74 of process_incoming_email: the
\* message is fetched, admitted and classified
StopBegin ==
    /\ probe.kind = "stop" /\ probe.pc = "idle" /\ ~probe.stopped
    /\ StopMessage.id \notin processed_email_ids
    /\ \E intent \in Intents, tr \in Transports :
         \E x \in ExtractionsFor(intent) :
            /\ probe' = [probe EXCEPT
                            !.pc = IF cases["a@x.io"].current_milestone = 1
                                   THEN "begun" ELSE "idle",
                            !.intent = intent, !.extracted = x, !.tr = tr]
            /\ last' = Last("poll_begin", "a@x.io", StopMessage.id, None, FALSE, FALSE)
    /\ UNCHANGED <<cases, processed_email_ids>>

\* lines 93-106 of handle_milestone1
StopMerge ==
    /\ probe.kind = "stop" /\ probe.pc = "begun" /\ ~probe.stopped
    /\ LET merged == IF probe.intent = "answer"
                     THEN merge_extracted(cases, "a@x.io", probe.extracted)
                     ELSE [st |-> cases, exc |-> "none"]
       IN  IF merged.st # cases
           THEN \E signal \in Signals : StopWrite(merged.st, "merged", signal)
           ELSE /\ probe' = [probe EXCEPT !.pc = "merged"]
                /\ UNCHANGED cases
    /\ last' = Last("poll_merge", "a@x.io", StopMessage.id, None, FALSE, FALSE)
    /\ UNCHANGED processed_email_ids

\* lines 109-118 of handle_milestone1 and the send of execute_action; with
\* no advance to make the pass returns, and poll_inbox adds the id when it
\* returned True (lines 38-40)
StopSend ==
    /\ probe.kind = "stop" /\ probe.pc = "merged" /\ ~probe.stopped
    /\ LET next_action == get_next_action(cases["a@x.io"])
           s == send_next_email(cases, "a@x.io", probe.tr)
           advances == /\ next_action.type = "send_completion_confirmation"
                       /\ s.ret
                       /\ is_milestone_complete(s.st, "a@x.io", 1)
           ret == IF next_action = NoAction THEN TRUE ELSE s.ret
       IN  /\ cases' = IF next_action = NoAction THEN cases ELSE s.st
           /\ probe' = [probe EXCEPT !.pc = IF advances THEN "sent" ELSE "idle"]
           /\ processed_email_ids' =
                 IF ~advances /\ ret THEN processed_email_ids \cup {StopMessage.id}
                 ELSE processed_email_ids
           /\ last' = Last("poll_send", "a@x.io", StopMessage.id, next_action.type,
                           next_action # NoAction /\ s.sent, ret)

\* lines 140-143 of execute_action
StopAdvance ==
    /\ probe.kind = "stop" /\ probe.pc = "sent" /\ ~probe.stopped
    /\ \E signal \in Signals :
          /\ StopWrite(advance_milestone(cases, "a@x.io").st, "idle", signal)
          /\ processed_email_ids' =
                IF signal = "none" THEN processed_email_ids \cup {StopMessage.id}
                ELSE processed_email_ids
    /\ last' = Last("poll_advance", "a@x.io", StopMessage.id,
                    "send_completion_confirmation", TRUE, TRUE)

\* KeyboardInterrupt between two statements: no except clause of the pass
\* catches it (it is no Exception), line 49 of poll_inbox breaks the loop
Interrupt ==
    /\ probe.kind = "stop" /\ ~probe.stopped
    /\ probe' = [probe EXCEPT !.stopped = TRUE]
    /\ last' = Last("interrupt", None, None, None, FALSE, FALSE)
    /\ UNCHANGED <<cases, processed_email_ids>>

InitStop ==
    /\ cases \in {st \in IntakeFiles :
                     HasCase(st, "a@x.io") /\ "employee_thread_id" \in DOMAIN st["a@x.io"]}
    /\ processed_email_ids = {}
    /\ last = Last("init", None, None, None, FALSE, FALSE)
    /\ probe = StopProbe("idle", None, NoExtraction, CHOOSE tr \in Transports : tr.kind = "accepted",
                         JsonFile(cases), FALSE)

NextStop ==
    \/ StopBegin
    \/ StopMerge
    \/ StopSend
    \/ StopAdvance
    \/ Interrupt

SpecStop == InitStop /\ [][NextStop]_vars

(***************************************************************************)
(* One pass on every case data, event and answer of the collaborators      *)
(***************************************************************************)
InitPass ==
    /\ \E d \in [MergeKeys -> {None, "x"}], linked \in BOOLEAN, cm \in 1..2 :
          LET st == ("a@x.io" :> MergeCase(d, linked))
          IN  cases = IF cm = 1 THEN st ELSE advance_milestone(st, "a@x.io").st
    /\ processed_email_ids = {}
    /\ last = Last("init", None, None, None, FALSE, FALSE)
    /\ probe = [kind |-> "pass", done |-> FALSE, decisions |-> 0, attempts |-> 0]

Pass ==
    /\ probe.kind = "pass" /\ ~probe.done
    /\ \E email \in Inbox :
         \E r \in Passes(cases, email) :
            /\ cases' = r.st
            /\ probe' = [kind |-> "pass", done |-> TRUE, decisions |-> r.decisions,
                         attempts |-> r.attempts]
            /\ last' = Last("process_incoming_email", email.from, email.id,
                            r.action, r.sent, r.ret)
    /\ UNCHANGED processed_email_ids

SpecPass == InitPass /\ [][Pass]_vars

(***************************************************************************)
(* What a call of the Decision Engine leaves behind (decision_engine.py)   *)
(***************************************************************************)
EngineMethods ==
    {"get_next_action", "check_milestone1_completion", "determine_missing_fields"}

\* a Decision Engine that notes the action it decided in the pending
\* actions of the case and saves
decision_engine_effect_recording(st, file, method, employee_email) ==
    LET noted == update_pending_actions(st, employee_email, 1,
                     <<get_next_action(st[employee_email]).type>>).st
    IN  IF method = "get_next_action"
        THEN [st |-> noted, file |-> JsonFile(noted), sent |-> FALSE]
        ELSE [st |-> st, file |-> file, sent |-> FALSE]

\* the store, the state file and whether a message was sent after a call of
\* method on the stored case of employee_email, which get_case hands out by
\* reference: lines 17-93 assign to no key of state or of its dicts, call no
\* method of self.state_manager and nothing of send_email
decision_engine_effect(st, file, method, employee_email) ==
    [st |-> st, file |-> file, sent |-> FALSE]

\* what the method returned
EngineResult(method, state) ==
    IF method = "get_next_action" THEN get_next_action(state).type
    ELSE IF method = "check_milestone1_completion"
    THEN (IF check_milestone1_completion(state) THEN "True" ELSE "False")
    ELSE IF determine_missing_fields(state) = <<>> THEN "[]"
    ELSE determine_missing_fields(state)[1]

InitPure ==
    /\ \E d \in [MergeKeys -> {None, "x"}], cm \in 1..2 :
          /\ cases = ("a@x.io" :> DecideCase(cm, d))
          /\ probe = [kind |-> "pure", method |-> "none", result |-> None,
                      before |-> cases, file |-> JsonFile(cases), sent |-> FALSE]
    /\ processed_email_ids = {}
    /\ last = Last("init", None, None, None, FALSE, FALSE)

CallEngine(method) ==
    /\ probe.kind = "pure"
    /\ LET e == decision_engine_effect(cases, probe.file, method, "a@x.io")
       IN  /\ cases' = e.st
           /\ probe' = [probe EXCEPT !.method = method,
                                     !.result = EngineResult(method, cases["a@x.io"]),
                                     !.file = e.file, !.sent = e.sent]
    /\ UNCHANGED <<processed_email_ids, last>>

NextPure == \E method \in EngineMethods : CallEngine(method)

SpecPure == InitPure /\ [][NextPure]_vars

(***************************************************************************)
(* The poll loop over a fixed inbox with collaborators that succeed        *)
(* (server.py 43-109)                                                      *)
(***************************************************************************)
\* what fetch_recent_emails returns on every cycle: the two messages of the
\* employee in thread t1
QuiesceInbox == <<LateMessage, EarlyMessage>>

\* the thread lookup succeeds: the dates of the two messages of t1
QuiesceThread == <<EarlyMessage.internalDate, LateMessage.internalDate>>

\* Gmail accepts every message
QuiesceTransport == [kind |-> "accepted", threadId |-> "t1"]

\* probe of this specification: the position of the loop in the fetched
\* list, and the ids is_relevant_to_shipping_moving finds relevant
QuiesceProbe(pos, relevant) == [kind |-> "quiesce", pos |-> pos, relevant |-> relevant]

QuiesceAdvance ==
    QuiesceProbe(IF probe.pos = Len(QuiesceInbox) THEN 1 ELSE probe.pos + 1,
                 probe.relevant)

\* lines 66-68: the id is in the processed set
QuiesceSkip ==
    /\ probe.kind = "quiesce"
    /\ LET email == QuiesceInbox[probe.pos]
       IN  /\ email.id \in processed_email_ids
           /\ last' = Last("poll_skipped", email.from, email.id, None, FALSE, FALSE)
    /\ probe' = QuiesceAdvance
    /\ UNCHANGED <<cases, processed_email_ids>>

\* lines 73-89: the relevance filter rejects the message
QuiesceFilter ==
    /\ probe.kind = "quiesce"
    /\ LET email == QuiesceInbox[probe.pos]
       IN  /\ email.id \notin processed_email_ids
           /\ email.id \notin probe.relevant
           /\ processed_email_ids' = processed_email_ids \cup {email.id}
           /\ last' = Last("poll_filtered", email.from, email.id, None, FALSE, FALSE)
    /\ probe' = QuiesceAdvance
    /\ UNCHANGED cases

\* lines 98-104: the pass over a relevant message
QuiescePass ==
    /\ probe.kind = "quiesce"
    /\ LET email == QuiesceInbox[probe.pos]
       IN  /\ email.id \notin processed_email_ids
           /\ email.id \in probe.relevant
           /\ \E intent \in Intents :
                \E x \in IF intent = "answer" THEN ThreadExtractions(email)
                                              ELSE {NoExtraction} :
                   LET r == process_incoming_email(cases, email, QuiesceThread, intent, x,
                                                   QuiesceTransport)
                   IN  /\ cases' = r.st
                       /\ processed_email_ids' =
                             IF r.ret THEN processed_email_ids \cup {email.id}
                             ELSE processed_email_ids
                       /\ last' = Last("poll_processed", email.from, email.id,
                                       r.action, r.sent, r.ret)
    /\ probe' = QuiesceAdvance

\* the server starts over a state file with the case of the employee, at
\* milestone 1 or past it
InitQuiesce ==
    /\ \E d \in [MergeKeys -> {None, "x"}], linked \in BOOLEAN, cm \in 1..2 :
          LET st == ("a@x.io" :> MergeCase(d, linked))
          IN  cases = IF cm = 1 THEN st ELSE advance_milestone(st, "a@x.io").st
    /\ processed_email_ids = {}
    /\ last = Last("init", None, None, None, FALSE, FALSE)
    /\ \E relevant \in SUBSET {LateMessage.id, EarlyMessage.id} :
          probe = QuiesceProbe(1, relevant)

NextQuiesce ==
    \/ QuiesceSkip
    \/ QuiesceFilter
    \/ QuiescePass

\* `while True` of poll_emails_task: the loop keeps taking its next step
SpecQuiesce == InitQuiesce /\ [][NextQuiesce]_vars /\ WF_vars(NextQuiesce)

(***************************************************************************)
(* Properties                                                              *)
(***************************************************************************)
Status(st, a, m) == st[a].milestones[m].status

\* the operations of the Orchestrator
OrchestratorOps == {"process_incoming_email", "execute_action", "initiate_case"}

\* the six required fields of milestone 1 as the specification lists them
RegistryOrder ==
    <<"pickup_address", "pickup_date", "delivery_address", "needs_box",
      "needs_packing_help", "insurance_opted_in">>

IsSet(data, k) == k \in DOMAIN data /\ data[k] # None

\* C1: after any Case Store or Orchestrator operation, no case disappears,
\* no current_milestone decreases, and a milestone that was completed is
\* still completed.
C1_Monotonic ==
    [][\A a \in DOMAIN cases :
          /\ a \in DOMAIN cases'
          /\ cases'[a].current_milestone >= cases[a].current_milestone
          /\ \A m \in DOMAIN cases[a].milestones :
                Status(cases, a, m) = "completed"
                    => /\ m \in DOMAIN cases'[a].milestones
                       /\ Status(cases', a, m) = "completed"]_vars

C1_Witness ==
    /\ last.op \in {"update_milestone_data", "update_pending_actions"}
    /\ last.ret
    /\ \E a \in DOMAIN cases :
          /\ cases[a].current_milestone = 3
          /\ Status(cases, a, 1) = "completed"
          /\ 2 \in DOMAIN cases[a].milestones
          /\ Status(cases, a, 2) = "completed"

\* C2: an Orchestrator operation changes current_milestone or a milestone
\* status of a case only when it sent the completion confirmation of that
\* case, the send succeeded and milestone 1 is complete, and then it marks
\* the current milestone completed and adds one; a case it creates starts at
\* milestone 1, in progress.
C2_AdvanceOnlyAfterSend ==
    [][last'.op \in OrchestratorOps =>
          \A a \in DOMAIN cases' :
             IF a \in DOMAIN cases
             THEN \/ /\ cases'[a].current_milestone = cases[a].current_milestone
                     /\ \A m \in DOMAIN cases'[a].milestones :
                           /\ m \in DOMAIN cases[a].milestones
                           /\ Status(cases', a, m) = Status(cases, a, m)
                  \/ /\ last'.action = "send_completion_confirmation"
                     /\ last'.sent /\ last'.ret
                     /\ last'.employee_email = a
                     /\ is_milestone_complete(cases', a, 1)
                     /\ cases'[a].current_milestone = cases[a].current_milestone + 1
             ELSE /\ cases'[a].current_milestone = 1
                  /\ Status(cases', a, 1) = "in_progress"]_vars

C2_Witness ==
    /\ last.op = "process_incoming_email"
    /\ last.action = "send_completion_confirmation"
    /\ last.sent /\ last.ret
    /\ last.employee_email \in DOMAIN cases
    /\ is_milestone_complete(cases, last.employee_email, 1)
    /\ cases[last.employee_email].current_milestone = 2
    /\ Status(cases, last.employee_email, 1) = "completed"

C4_SecondDeliveryNoOp ==
    [][(probe'.kind = "intake" /\ probe'.replay) =>
          (cases' = cases /\ ~last'.sent)]_vars

\* C5: after handle_milestone1 with the intent answer, every field of
\* milestone 1 that held a value before still holds one.
C5_NoRegression ==
    (probe.kind = "merge" /\ probe.done) =>
        \A k \in DOMAIN probe.before :
            probe.before[k] # None => IsSet(Milestone1Data(cases["a@x.io"]), k)

C5_Witness ==
    /\ probe.kind = "merge" /\ probe.done /\ probe.exc = "none"
    /\ \E k \in MergeKeys :
          /\ probe.before[k] = "x" /\ probe.extracted[k] = None
          /\ Milestone1Data(cases["a@x.io"])[k] = "x"
    /\ \E k \in MergeKeys :
          /\ probe.before[k] = "x" /\ probe.extracted[k] = "y"
          /\ Milestone1Data(cases["a@x.io"])[k] = "y"

\* the numeric maximum of the dates of a thread
NumericMax(dates) ==
    CHOOSE n \in {StrToInt(dates[i]) : i \in 1..Len(dates)} :
        \A i \in 1..Len(dates) : StrToInt(dates[i]) <= n

\* C6: for an event with a thread id and a date whose thread lookup returns
\* messages (each with its date), is_latest_in_thread admits the event if and
\* only if its date is at least the numeric maximum of the dates of the
\* thread.
C6_AdmitIffNumericLatest ==
    (/\ probe.kind = "thread" /\ probe.done
     /\ probe.email.threadId # None
     /\ probe.email.internalDate # NoDate
     /\ probe.thread_messages # <<>>
     /\ \A i \in 1..Len(probe.thread_messages) : probe.thread_messages[i] # NoDate)
    => /\ probe.out.exc = "none"
       /\ probe.out.value <=>
             (StrToInt(probe.email.internalDate) >= NumericMax(probe.thread_messages))

\* C7 as stated: at milestone 1 with every required field unset,
\* get_next_action returns send_initial_request to the case's address.
C7_InitialWhenRequiredUnset ==
    (/\ probe.kind = "decide" /\ probe.done
     /\ cases["a@x.io"].current_milestone = 1
     /\ \A i \in 1..Len(RegistryOrder) :
           ~IsSet(Milestone1Data(cases["a@x.io"]), RegistryOrder[i]))
    => /\ probe.action.type = "send_initial_request"
       /\ probe.action.to = "a@x.io"

\* C7 amended: at milestone 1 with no value at all in the data mapping,
\* get_next_action returns send_initial_request to the case's address.
C7_InitialWhenNoData ==
    (/\ probe.kind = "decide" /\ probe.done
     /\ cases["a@x.io"].current_milestone = 1
     /\ \A k \in DOMAIN Milestone1Data(cases["a@x.io"]) :
           ~IsSet(Milestone1Data(cases["a@x.io"]), k))
    => /\ probe.action.type = "send_initial_request"
       /\ probe.action.to = "a@x.io"

C7_Witness ==
    /\ probe.kind = "decide" /\ probe.done
    /\ cases["a@x.io"].current_milestone = 1
    /\ DOMAIN Milestone1Data(cases["a@x.io"]) = SeqToSet(RegistryOrder)
    /\ \A k \in SeqToSet(RegistryOrder) : Milestone1Data(cases["a@x.io"])[k] = None
    /\ probe.action.type = "send_initial_request"

\* the fields of RegistryOrder[i..] that data leaves unset, in that order
RECURSIVE UnsetInOrder(_, _)
UnsetInOrder(data, i) ==
    IF i > Len(RegistryOrder) THEN <<>>
    ELSE IF IsSet(data, RegistryOrder[i])
         THEN UnsetInOrder(data, i + 1)
         ELSE <<RegistryOrder[i]>> \o UnsetInOrder(data, i + 1)

\* C8: at milestone 1 with a required field set and a required field unset,
\* get_next_action returns send_followup whose missing_fields are the
\* required fields unset, in registry order.
C8_FollowupListsUnset ==
    (/\ probe.kind = "decide" /\ probe.done
     /\ cases["a@x.io"].current_milestone = 1
     /\ \E i \in 1..Len(RegistryOrder) :
           IsSet(Milestone1Data(cases["a@x.io"]), RegistryOrder[i])
     /\ \E i \in 1..Len(RegistryOrder) :
           ~IsSet(Milestone1Data(cases["a@x.io"]), RegistryOrder[i]))
    => /\ probe.action.type = "send_followup"
       /\ probe.action.missing_fields = UnsetInOrder(Milestone1Data(cases["a@x.io"]), 1)

\* C9: both completion checks are true if and only if all six required
\* fields are set, False counting as set.
C9_CompleteIffSixSet ==
    (probe.kind = "decide" /\ probe.done) =>
        LET six == \A i \in 1..Len(RegistryOrder) :
                      IsSet(Milestone1Data(cases["a@x.io"]), RegistryOrder[i])
        IN  /\ probe.complete <=> six
            /\ probe.sm_complete <=> six

\* C10: when the Orchestrator sends the completion confirmation of a case at
\* milestone 1 with all six fields set and Gmail accepts it, the case is at
\* milestone 2 afterwards with milestone 1 completed.
C10_CompleteAdvances ==
    [][(/\ last'.op \in {"process_incoming_email", "execute_action"}
        /\ last'.action = "send_completion_confirmation"
        /\ last'.sent
        /\ last'.employee_email \in DOMAIN cases
        /\ cases[last'.employee_email].current_milestone = 1
        /\ \A i \in 1..Len(RegistryOrder) :
              IsSet(Milestone1Data(cases[last'.employee_email]), RegistryOrder[i]))
       => /\ cases'[last'.employee_email].current_milestone = 2
          /\ Status(cases', last'.employee_email, 1) = "completed"]_vars

C12_TerminalNoAction ==
    /\ [](\A a \in DOMAIN cases :
             cases[a].current_milestone > 1 => get_next_action(cases[a]) = NoAction)
    /\ [][(/\ last'.op = "process_incoming_email"
           /\ last'.employee_email \in DOMAIN cases
           /\ cases[last'.employee_email].current_milestone > 1)
          => /\ ~last'.sent
             /\ last'.action = None
             /\ cases'[last'.employee_email].milestones
                   = cases[last'.employee_email].milestones
             /\ cases'[last'.employee_email].current_milestone
                   = cases[last'.employee_email].current_milestone]_vars

C12_Witness ==
    /\ last.op = "process_incoming_email"
    /\ last.email_id = "m1"
    /\ last.action = None /\ ~last.sent /\ ~last.ret
    /\ last.employee_email \in DOMAIN cases
    /\ cases[last.employee_email].current_milestone = 2
    /\ is_milestone_complete(cases, last.employee_email, 1)

\* C13: create_case on an address that has a case leaves the store as it
\* was, whatever was done to the case since it was created.
C13_CreateIdempotent ==
    [][(last'.op = "create_case" /\ last'.employee_email \in DOMAIN cases)
          => cases' = cases]_vars

C13_Witness ==
    /\ last.op = "create_case"
    /\ last.employee_email \in DOMAIN cases
    /\ cases[last.employee_email].current_milestone = 2
    /\ Status(cases, last.employee_email, 1) = "completed"
    /\ IsSet(Milestone1Data(cases[last.employee_email]), "pickup_address")

\* C17: a pass over an event whose sender address cannot be resolved leaves
\* the store as it was and sends no message.
C17_UnresolvedSenderRejected ==
    [][(last'.op = "process_incoming_email" /\ last'.employee_email = None)
          => (cases' = cases /\ ~last'.sent /\ ~last'.ret)]_vars

C17_Witness ==
    /\ last.op = "process_incoming_email"
    /\ last.email_id = "m3"
    /\ last.employee_email = None
    /\ ~last.sent
    /\ DOMAIN cases = {"a@x.io"}

\* C15: when the send of a pass of the poll loop fails, the pass reports
\* failure, the case keeps its current_milestone and its milestone statuses,
\* and the event id is not in the processed set afterwards.
C15_SendFailureNotProcessed ==
    [][(last'.op = "poll_processed" /\ last'.action # None /\ ~last'.sent)
          => /\ ~last'.ret
             /\ last'.email_id \notin processed_email_ids'
             /\ LET a == last'.employee_email
                IN  IF a \in DOMAIN cases
                    THEN /\ cases'[a].current_milestone = cases[a].current_milestone
                         /\ \A m \in DOMAIN cases'[a].milestones :
                               /\ m \in DOMAIN cases[a].milestones
                               /\ Status(cases', a, m) = Status(cases, a, m)
                    ELSE /\ cases'[a].current_milestone = 1
                         /\ Status(cases', a, 1) = "in_progress"]_vars

C15_Witness ==
    /\ last.op = "poll_processed"
    /\ last.action = "send_completion_confirmation"
    /\ ~last.sent /\ ~last.ret
    /\ last.email_id \notin processed_email_ids
    /\ cases[last.employee_email].current_milestone = 1
    /\ Status(cases, last.employee_email, 1) = "in_progress"

\* C16: a pass of the poll loop whose classification failed (intent unknown)
\* or found no known category (intent unrelated), and in which nothing else
\* failed, sends nothing, leaves the store as it was, raises nothing, and its
\* event id is in the processed set afterwards.
C16_UnclassifiedIsNoOp ==
    [][(/\ last'.op = "poll_processed"
        /\ probe'.intent \in {"unknown", "unrelated"}
        /\ probe'.failures \subseteq {"classification"}
        /\ probe'.exc = "none")
          => /\ ~last'.sent
             /\ cases' = cases
             /\ probe'.raised = "none"
             /\ last'.email_id \in processed_email_ids']_vars

\* C19: no exception leaves process_incoming_email, a pass that ended in
\* an exception reports failure for its event and does not mark it
\* processed, and the poll loop takes the next event.
C19_FailuresContained ==
    /\ [](probe.kind = "poll" => probe.raised = "none")
    /\ [][(last'.op = "poll_processed" /\ probe'.exc # "none")
             => /\ ~last'.ret
                /\ last'.email_id \notin processed_email_ids'
                /\ processed_email_ids' = processed_email_ids]_vars

C19_Witness ==
    /\ probe.kind = "poll" /\ probe.survived
    /\ last.op = "poll_processed"
    /\ probe.failures = {"store write"}
    /\ probe.exc = "IOError"
    /\ ~last.ret
    /\ last.email_id \notin processed_email_ids
    /\ processed_email_ids # {}


\* C14: when a new StateManager loads the file the first one has written,
\* it is constructed and its cases are the cases the first one holds in
\* memory.
C14_ReloadEqualsWriter ==
    [][(last'.op = "load_state")
        => (last'.ret /\ probe'.mem2 = cases')]_vars

\* C18: with two StateManagers over one file, every milestone-1 field whose
\* update returned is in the persisted case with the value written last,
\* as long as no write has failed.
C18_NoLostUpdate ==
    (probe.kind = "file" /\ ~probe.io_failed /\ probe.committed # EmptyDict)
        => /\ probe.file.kind = "json"
           /\ HasCase(json_load(probe.file.text), "a@x.io")
           /\ \A k \in DOMAIN probe.committed :
                 Get(json_load(probe.file.text)["a@x.io"].milestones[1].data, k)
                     = probe.committed[k]

\* C20: constructing a StateManager over a corrupt or unreadable file
\* raises nothing and leaves a store with no cases whose _state is the
\* dict the store operations expect.
C20_CorruptFileIsEmptyStore ==
    (probe.kind = "file" /\ last.op = "construct" /\ probe.opened \in CorruptKinds)
        => (last.ret /\ cases = EmptyStore /\ ~probe.broken)


\* C21: a pass whose event is_latest_in_thread rejects as stale leaves every
\* case as it was, creates none and sends no message.
C21_StaleRejectedNoEffect ==
    [][(probe'.kind = "thread_passes" /\ last'.op = "process_incoming_email"
        /\ probe'.admitted = "stale")
        => (cases' = cases /\ ~last'.sent /\ ~last'.ret /\ last'.action = None)]_vars

C21_Witness ==
    /\ probe.kind = "thread_passes" /\ last.op = "process_incoming_email"
    /\ probe.admitted = "stale"
    /\ probe.email = EarlyMessage
    /\ cases = EmptyStore


\* C24: after a pass that admits an event of a thread, the case of the sender
\* carries that thread id as its employee thread id and the pass left
\* process_incoming_email without an exception; and no pass removes an
\* employee thread id a case carries.
C24_ThreadLinked ==
    [][(probe'.kind = "thread_passes" /\ last'.op = "process_incoming_email")
        => /\ probe'.admitted = "admitted"
              => /\ HasCase(cases', probe'.email.from)
                 /\ Get(cases'[probe'.email.from], "employee_thread_id")
                       = probe'.email.threadId
                 /\ probe'.exc = "none"
           /\ \A a \in DOMAIN cases :
                 Get(cases[a], "employee_thread_id") # None
                    => Get(cases'[a], "employee_thread_id") # None]_vars

C22_AdmitsWithoutThread ==
    (/\ probe.kind = "lookup" /\ probe.done
     /\ \/ probe.email.threadId = None
        \/ probe.response.kind # "thread"
        \/ probe.response.messages = <<>>)
    => (probe.out.exc = "none" /\ probe.out.value)


\* C23: a step of the poll loop removes no id from the processed set, and
\* the only id it adds is the id of the event it handled, either because the
\* relevance filter rejected the event or because the pass over it returned
\* True with no exception caught or raised and with the decided action, if
\* any, sent.
C23_ProcessedOnlyAfterSuccess ==
    [][probe'.kind = "poll"
        => /\ processed_email_ids \subseteq processed_email_ids'
           /\ \A id \in processed_email_ids' \ processed_email_ids :
                 /\ id = last'.email_id
                 /\ \/ last'.op = "poll_filtered"
                    \/ /\ last'.op = "poll_processed"
                       /\ last'.ret
                       /\ probe'.exc = "none" /\ probe'.raised = "none"
                       /\ last'.action # None => last'.sent]_vars

C23_Witness ==
    /\ probe.kind = "poll" /\ last.op = "poll_processed"
    /\ last.ret /\ last.sent
    /\ last.email_id \in processed_email_ids
    /\ probe.survived
    /\ \E email \in PollInbox : email.id \notin processed_email_ids


\* C25: initiate_case and execute_action, which send through
\* send_next_email, return True exactly when Gmail accepted the message,
\* and after an accepted send for a case that carried no employee thread id
\* the case carries the thread id Gmail answered with.
C25_SentIffAccepted ==
    [][last'.op \in {"initiate_case", "execute_action"}
        => /\ last'.ret <=> last'.sent
           /\ (/\ last'.sent
               /\ HasCase(cases, last'.employee_email)
                     => Get(cases[last'.employee_email], "employee_thread_id") = None)
                 => Get(cases'[last'.employee_email], "employee_thread_id") = "t1"]_vars


\* C26: when Gmail does not accept the message of an execute_action call,
\* the case - milestone data, milestone status, current_milestone and thread
\* id - is as it was before the call, the call returns False, and
\* send_message was called at most once.
C26_FailedSendNoEffect ==
    (probe.kind = "execute" /\ probe.done /\ probe.transport # "accepted")
        => /\ cases = ("a@x.io" :> probe.before)
           /\ ~last.ret /\ ~last.sent
           /\ probe.attempts <= 1

C26_Witness ==
    /\ probe.kind = "execute" /\ probe.done /\ probe.transport = "http_error"
    /\ last.action = "send_completion_confirmation"
    /\ probe.attempts = 1
    /\ is_milestone_complete(cases, "a@x.io", 1)
    /\ "employee_thread_id" \in DOMAIN cases["a@x.io"]
    /\ cases["a@x.io"].current_milestone = 1
    /\ Status(cases, "a@x.io", 1) = "in_progress"


\* C27: every case an operation creates has, in its milestone-1 data, a key
\* for each of the six required fields, with value None; and a case that had
\* the six keys keeps them.
C27_SixKeysPresent ==
    [][\A a \in DOMAIN cases' :
          LET has(st) == /\ 1 \in DOMAIN st[a].milestones
                         /\ SeqToSet(RegistryOrder) \subseteq DOMAIN st[a].milestones[1].data
          IN  IF a \in DOMAIN cases
              THEN has(cases) => has(cases')
              ELSE /\ has(cases')
                   /\ \A k \in SeqToSet(RegistryOrder) :
                         cases'[a].milestones[1].data[k] = None]_vars

\* C28: the initial request initiate_case sends is the action
\* get_next_action returns for the case as initiate_case finds or creates
\* it.
C28_InitiateAsDecided ==
    [][last'.op = "initiate_case"
        => get_next_action(create_case(cases, last'.employee_email)
                              [last'.employee_email]).type
              = "send_initial_request"]_vars


\* C30: when KeyboardInterrupt has ended the poll loop, no pass is cut
\* short - the event that was being processed has run to the end of its
\* pass - and the state file holds the cases as they are in memory.
C30_StopFinishesEvent ==
    (probe.kind = "stop" /\ probe.stopped)
        => (probe.pc = "idle" /\ probe.file = JsonFile(cases))


\* C31: a pass of process_incoming_email over one event calls
\* get_next_action at most once and send_message at most once.
C31_OneActionOneSend ==
    (probe.kind = "pass" /\ probe.done)
        => /\ probe.decisions <= 1
           /\ probe.attempts <= 1
           /\ probe.attempts <= probe.decisions
           /\ last.sent => probe.attempts = 1

C31_Witness ==
    /\ probe.kind = "pass" /\ probe.done
    /\ probe.decisions = 1 /\ probe.attempts = 1
    /\ last.action = "send_completion_confirmation"
    /\ last.sent /\ last.ret
    /\ cases["a@x.io"].current_milestone = 2


C33_DecisionExhaustive ==
    (/\ probe.kind = "decide" /\ probe.done
     /\ cases["a@x.io"].current_milestone = 1)
    => /\ probe.action # NoAction
       /\ \/ probe.action.type = "send_initial_request"
          \/ probe.action.type = "send_completion_confirmation"
          \/ /\ probe.action.type = "send_followup"
             /\ probe.action.missing_fields # <<>>

C33_Witness ==
    /\ probe.kind = "decide" /\ probe.done
    /\ cases["a@x.io"].current_milestone = 1
    /\ DOMAIN Milestone1Data(cases["a@x.io"]) = {"notes", "pickup_date"}
    /\ Milestone1Data(cases["a@x.io"])["notes"] = "x"
    /\ probe.action.type = "send_followup"
    /\ Len(probe.action.missing_fields) = 5


\* C34: in every reachable state check_milestone1_completion of a stored case
\* equals is_milestone_complete of its address for milestone 1, and whenever a
\* pass decided send_completion_confirmation and Gmail accepted the message,
\* the check after the send holds and the case has advanced by one.
C34_ChecksAgree ==
    /\ [](\A a \in DOMAIN cases :
             check_milestone1_completion(cases[a]) = is_milestone_complete(cases, a, 1))
    /\ [][(/\ last'.op = "process_incoming_email"
           /\ last'.action = "send_completion_confirmation"
           /\ last'.sent
           /\ last'.employee_email \in DOMAIN cases)
          => /\ is_milestone_complete(cases', last'.employee_email, 1)
             /\ cases'[last'.employee_email].current_milestone
                   = cases[last'.employee_email].current_milestone + 1]_vars


\* C35: the poll loop never admits an event that one of its earlier passes
\* rejected as stale, whatever the thread lookup answers then.
C35_StaleStaysRejected ==
    [][(/\ probe'.kind = "thread_passes" /\ last'.op = "process_incoming_email"
        /\ probe'.via = "poll"
        /\ probe'.email.id \in probe.stale)
        => probe'.admitted # "admitted"]_vars


\* C36: when Gmail has accepted the message a pass of the poll loop sent for
\* an event, the pass returns True and the id of the event is in the
\* processed set, so that no later poll cycle hands the event over again.
C36_OneSendPerEvent ==
    [][(probe'.kind = "intake" /\ last'.op = "poll_processed" /\ last'.sent)
        => (last'.ret /\ last'.email_id \in processed_email_ids')]_vars


\* C37: over a fixed inbox and with collaborators that succeed, the poll loop
\* reaches a state from which on every fetched id is in the processed set,
\* so that no later cycle hands an event to the Orchestrator.
C37_PollQuiesces ==
    <>[](\A i \in 1..Len(QuiesceInbox) : QuiesceInbox[i].id \in processed_email_ids)


\* C38: in every reachable state, milestone 1 of a case has the status
\* completed exactly when current_milestone of the case is greater than 1.
C38_CompletedIffPast ==
    \A a \in DOMAIN cases :
       /\ 1 \in DOMAIN cases[a].milestones
       /\ Status(cases, a, 1) = "completed" <=> cases[a].current_milestone > 1

C38_Witness ==
    /\ last.op = "update_milestone_data" /\ last.ret
    /\ HasCase(cases, "a@x.io")
    /\ cases["a@x.io"].current_milestone = 2
    /\ Status(cases, "a@x.io", 1) = "completed"
    /\ 2 \in DOMAIN cases["a@x.io"].milestones
    /\ Status(cases, "a@x.io", 2) = "in_progress"


====
